---- MODULE Spec2Model ----
(***************************************************************************)
(* The DNS-zone resource handlers of terraform-provider-bunny              *)
(* (resource_dns_zone.go, structure.go, the anonymization enum tables).    *)
(*                                                                         *)
(* The resource document d (schema.ResourceData) holds the planned         *)
(* configuration on entry to a handler and the cached state on return.     *)
(* The remote API is a store of zones keyed by identifier.  The host runs  *)
(* one handler at a time; pc is the position inside the running handler.   *)
(*                                                                         *)
(* Pointers are sequences of length 0 (nil) or 1.  Strings that the code   *)
(* formats or parses (the identifier) are sequences of one-character       *)
(* strings, so that FormatInt and ParseInt are computed digit by digit.    *)
(*                                                                         *)
(* d.Set stores a value of the field's schema type and does not fail, so   *)
(* the error returns that follow d.Set have no transition.  d.Get of a     *)
(* block the document does not hold is the empty list.  The host validates *)
(* a configuration against the schema before it calls Create or Update.    *)
(*                                                                         *)
(* The handlers hand their context to the client and never inspect it.     *)
(* The caller may cancel it at any position of a running handler; a client *)
(* call made under a cancelled context fails and leaves the remote store   *)
(* as it is.  calls records the client calls the handler makes.            *)
(*                                                                         *)
(* SpecEnum applies the two enum lookups to names and codes drawn from     *)
(* bounded sets.  The error text of the lookup by name formats the         *)
(* identifier triggerType, which the sources do not declare; its value is  *)
(* drawn from the same strings as the names.  Spec never reads it.         *)
(***************************************************************************)
EXTENDS Integers, Sequences, FiniteSets, TLC

VARIABLES
    d,          \* the resource document: id and the schema's fields
    config,     \* the configuration the host supplied for the running operation
    remote,     \* the remote store: identifier -> zone, for the zones that exist
    nextID,     \* the identifier the remote assigns to the next zone it creates
    clock,      \* time.Now(), in ticks
    op,         \* the handler the host invoked last
    pc,         \* the position in that handler
    calls,      \* the remote calls the operation has made, in order
    rerr,       \* the error of the operation's last remote call
    payload,    \* Update: the payload built by dnsZoneUpdateFromResource
    idv,        \* the identifier parsed by getIDAsInt64
    addResp,    \* Create: the zone returned by DNSZone.Add (pointer)
    resp,       \* the zone returned by DNSZone.Update or DNSZone.Get (pointer)
    udiags,     \* the diagnostics resourceDnsZoneUpdate returned
    diags,      \* the diagnostics the operation returned
    snapshot,   \* d when the operation was invoked
    usnap,      \* d when resourceDnsZoneUpdate was entered
    prev,       \* the operation that returned just before this one, and the remote's answer to it
    createdID,  \* the identifier of the zone that Create produced for the local record
    nops,       \* the number of operations and remote changes so far
    ctx,        \* the operation's context: <<>> while live, <<n>> once cancelled after n remote calls
    triggerType,\* the value of the identifier the lookup's error message formats
    lookup      \* the enum tables' inputs and the results of the lookups applied to them

vars == <<d, config, remote, nextID, clock, op, pc, calls, rerr, payload, idv,
          addResp, resp, udiags, diags, snapshot, usnap, prev, createdID, nops,
                   ctx, triggerType, lookup>>

-----------------------------------------------------------------------------
(* Bounds of the model *)

\* number of host operations and remote changes in one behaviour
MaxOps == 3
\* number of zones the remote can create in one behaviour
MaxZones == 2
\* number of ticks the clock can advance in one behaviour
MaxTicks == 2
\* largest anonymization code the remote can hold (the table knows 0 and 1)
MaxCode == 2

\* the first identifier the remote assigns (so that two-digit identifiers occur)
FirstID == 9
\* ticks per second of the clock; RFC850 has a resolution of one second
TicksPerSecond == 2

LastID == FirstID + MaxZones - 1
StartTick == TicksPerSecond
LastTick == StartTick + MaxTicks

-----------------------------------------------------------------------------
(* Keys of the schema *)

keyDnsZoneDomain == "domain"
keyDnsZoneCustomNameservers == "custom_nameservers"
keyDnsZoneLogging == "logging"
keyLastUpdated == "last_updated"
\* defined for the pull zone resource; the DNS zone schema declares no such field
keyHeaders == "headers"

-----------------------------------------------------------------------------
(* Pointers *)

NilPtr == <<>>
Ptr(v) == <<v>>
IsNil(p) == Len(p) = 0
Deref(p) == p[1]

\* what d.Set stores for a *string in a TypeString field: nil becomes ""
StrOrZero(p) == IF IsNil(p) THEN "" ELSE Deref(p)

-----------------------------------------------------------------------------
(* strconv: the identifier on the wire is a decimal string *)

Digits == <<"0", "1", "2", "3", "4", "5", "6", "7", "8", "9">>
IsDigit(c) == \E k \in 1..10 : Digits[k] = c
DigitVal(c) == (CHOOSE k \in 1..10 : Digits[k] = c) - 1

RECURSIVE FormatNat(_)
FormatNat(n) ==
    IF n < 10 THEN <<Digits[n + 1]>>
    ELSE Append(FormatNat(n \div 10), Digits[(n % 10) + 1])

\* FormatInt that writes the last digit only
FormatInt_lastDigit(n) == <<Digits[(n % 10) + 1]>>

\* strconv.FormatInt(n, 10)
FormatInt(n) == IF n < 0 THEN <<"-">> \o FormatNat(0 - n) ELSE FormatNat(n)

RECURSIVE ParseNat(_, _)
ParseNat(s, acc) ==
    IF Len(s) = 0 THEN acc
    ELSE ParseNat(Tail(s), acc * 10 + DigitVal(Head(s)))

\* strconv.ParseInt(s, 10, 64) as used by getIDAsInt64: [val, ok]
ParseInt(s) ==
    LET body == IF Len(s) > 0 /\ Head(s) \in {"-", "+"} THEN Tail(s) ELSE s
        neg == Len(s) > 0 /\ Head(s) = "-"
    IN  IF Len(body) = 0 \/ \E i \in 1..Len(body) : ~IsDigit(body[i])
        THEN [val |-> 0, ok |-> FALSE]
        ELSE [val |-> IF neg THEN 0 - ParseNat(body, 0) ELSE ParseNat(body, 0),
              ok |-> TRUE]

\* getIDAsInt64(d): the document's identifier as an integer, or an error
getIDAsInt64(doc) == ParseInt(doc.id)

NoID == <<>>

-----------------------------------------------------------------------------
(* The anonymization enum *)

\* dnsZoneLoggingAnonymizationTypesStr, as a set of <<name, code>> pairs
dnsZoneLoggingAnonymizationTypesStr == {<<"remove_octet", 0>>, <<"drop_ip", 1>>}

\* reverseStrIntMap: the <<code, name>> pairs
reverseStrIntMap(m) == {<<e[2], e[1]>> : e \in m}

dnsZoneLoggingAnonymizationTypesInt ==
    reverseStrIntMap(dnsZoneLoggingAnonymizationTypesStr)

\* strIntMapKeysSorted: the names (the order plays no role in a membership test)
dnsZoneLoggingAnonymizationTypeKeys ==
    {e[1] : e \in dnsZoneLoggingAnonymizationTypesStr}

\* a map lookup: [val, ok]; the zero value when the key is missing
MapGet(m, k, zero) ==
    IF \E e \in m : e[1] = k
    THEN [val |-> (CHOOSE e \in m : e[1] = k)[2], ok |-> TRUE]
    ELSE [val |-> zero, ok |-> FALSE]

\* intStrMapGet(m, code): the name of a code, or an error
intStrMapGet(m, code) == MapGet(m, code, "")

\* dnsZoneLoggingAnonymizationTypeToInt(anonymizationType): the code of a name,
\* or -1 and an error; the error's text formats the identifier triggerType, which
\* is not the function's parameter
dnsZoneLoggingAnonymizationTypeToInt(anonymizationType) ==
    LET r == MapGet(dnsZoneLoggingAnonymizationTypesStr, anonymizationType, -1)
    IN  [val |-> r.val, ok |-> r.ok,
         err |-> IF r.ok THEN <<>>
                 ELSE <<[msg |-> "unsupported IP anonymization type: %q",
                         arg |-> triggerType]>>]

\* edgeRuleTriggerTypeToInt(name): the lookup dnsZoneUpdateFromResource calls
edgeRuleTriggerTypeToInt(name) ==
    MapGet(dnsZoneLoggingAnonymizationTypesStr, name, -1)

-----------------------------------------------------------------------------
(* The resource document (schema.ResourceData) *)

\* the value of the computed last_updated field before anything is stamped ("")
NoTime == 0

\* time.Now().Format(time.RFC850): the time of day to the second
FormatRFC850(t) == t \div TicksPerSecond

\* the document of a resource that has no identifier and no field set
BlankDoc ==
    [id |-> <<>>, domain |-> "", custom_nameservers |-> <<>>, logging |-> <<>>,
     last_updated |-> NoTime]

\* d.Get(key): the field of the document; a block the document does not carry
\* is the empty list
Get(doc, key) == IF key \in DOMAIN doc THEN doc[key] ELSE <<>>

\* d.Set(key, value)
Set(doc, key, value) == [doc EXCEPT ![key] = value]

\* d.SetId(id)
SetId(doc, id) == [doc EXCEPT !.id = id]

\* the nil structure: a map without keys
NilStructure == <<>>

\* structureFromResource(d, key): the block read is keyHeaders, whatever key is
structureFromResource(doc, key) ==
    LET list == Get(doc, keyHeaders)
    IN  IF Len(list) = 0 THEN [val |-> NilStructure, panic |-> FALSE]
        ELSE IF Len(list) # 1 THEN [val |-> NilStructure, panic |-> TRUE]
        ELSE [val |-> list[1], panic |-> FALSE]

\* len(m) of a structure: the number of its keys
StructLen(m) == Cardinality(DOMAIN m)

\* m.getStrPtr(key), like getBoolPtr: a pointer to the string under key
getStrPtr(m, key) == Ptr(m[key])

-----------------------------------------------------------------------------
(* Diagnostics *)

Diag(sev, summary) == [severity |-> sev, summary |-> summary]

\* diag.FromErr(err)
FromErr(summary) == <<Diag("Error", summary)>>

\* diagsErrFromErr(summary, err)
diagsErrFromErr(summary) == <<Diag("Error", summary)>>

\* diags.HasError()
HasError(ds) == \E i \in 1..Len(ds) : ds[i].severity = "Error"

-----------------------------------------------------------------------------
(* Translation between the document and the API types *)

\* the zero value of bunny.DNSZoneUpdateOptions (var res)
ZeroUpdateOptions ==
    [CustomNameserversEnabled |-> FALSE, Nameserver1 |-> NilPtr,
     Nameserver2 |-> NilPtr, SoaEmail |-> NilPtr, LoggingEnabled |-> FALSE,
     LoggingIPAnonymizationEnabled |-> FALSE, LogAnonymizationType |-> 0]

\* the nameserver half with the length test dropped: custom nameservers are
\* requested whether the block is there or not
UpdateNameservers_alwaysEnabled(res, customNameservers) ==
    [res EXCEPT !.CustomNameserversEnabled = TRUE]

\* the nameserver half of dnsZoneUpdateFromResource
UpdateNameservers(res, customNameservers) ==
    IF StructLen(customNameservers) = 0
    THEN [res EXCEPT !.CustomNameserversEnabled = FALSE]
    ELSE [res EXCEPT !.CustomNameserversEnabled = TRUE,
                     !.Nameserver1 = getStrPtr(customNameservers, "nameserver_1"),
                     !.Nameserver2 = getStrPtr(customNameservers, "nameserver_2"),
                     !.SoaEmail = getStrPtr(customNameservers, "soa_email")]

\* the logging half of dnsZoneUpdateFromResource
UpdateLogging(res, logging) ==
    IF StructLen(logging) = 0
    THEN [res EXCEPT !.LoggingEnabled = FALSE,
                     !.LoggingIPAnonymizationEnabled = FALSE]
    ELSE LET at == edgeRuleTriggerTypeToInt(logging["ip_anonymization"])
         IN  IF ~at.ok
             THEN [res EXCEPT !.LoggingEnabled = TRUE,
                              !.LoggingIPAnonymizationEnabled = FALSE]
             ELSE [res EXCEPT !.LoggingEnabled = TRUE,
                              !.LoggingIPAnonymizationEnabled = TRUE,
                              !.LogAnonymizationType = at.val]

\* dnsZoneUpdateFromResource(d): [res, ok, panic]; the error returned is always nil
dnsZoneUpdateFromResource(doc) ==
    LET cn == structureFromResource(doc, keyDnsZoneCustomNameservers)
        lg == structureFromResource(doc, keyDnsZoneLogging)
    IN  IF cn.panic \/ lg.panic
        THEN [res |-> ZeroUpdateOptions, ok |-> FALSE, panic |-> TRUE]
        ELSE [res |-> UpdateLogging(UpdateNameservers(ZeroUpdateOptions, cn.val), lg.val),
              ok |-> TRUE, panic |-> FALSE]

\* the custom_nameservers block dnsZoneToResource writes
NameserverBlock(dnsZone) ==
    [enabled |-> dnsZone.CustomNameserversEnabled,
     nameserver_1 |-> StrOrZero(dnsZone.Nameserver1),
     nameserver_2 |-> StrOrZero(dnsZone.Nameserver2),
     soa_email |-> StrOrZero(dnsZone.SoaEmail)]

\* the logging block dnsZoneToResource writes
LoggingBlock(dnsZone, anonymizationType) ==
    [enabled |-> dnsZone.LoggingEnabled,
     ip_anonymization_enabled |-> dnsZone.LoggingIPAnonymizationEnabled,
     ip_anonymization |-> anonymizationType]

\* dnsZoneToResource with the nil check of the identifier dropped: a response
\* without identifier clears the identifier of the document
dnsZoneToResource_clearsId(dnsZone, doc) ==
    LET d0 == IF ~IsNil(dnsZone.ID) THEN SetId(doc, FormatInt(Deref(dnsZone.ID)))
              ELSE SetId(doc, <<>>)
        d1 == Set(d0, keyDnsZoneDomain, dnsZone.Domain)
        d2 == Set(d1, keyDnsZoneCustomNameservers, <<NameserverBlock(dnsZone)>>)
        at == intStrMapGet(dnsZoneLoggingAnonymizationTypesInt, dnsZone.LogAnonymizationType)
    IN  IF ~at.ok
        THEN [doc |-> d2, ok |-> FALSE]
        ELSE [doc |-> Set(d2, keyDnsZoneLogging, <<LoggingBlock(dnsZone, at.val)>>),
              ok |-> TRUE]

\* dnsZoneToResource with the error of intStrMapGet dropped: the logging block
\* is written with the empty name the failed lookup returned
dnsZoneToResource_ignoresLookupError(dnsZone, doc) ==
    LET d0 == IF ~IsNil(dnsZone.ID) THEN SetId(doc, FormatInt(Deref(dnsZone.ID))) ELSE doc
        d1 == Set(d0, keyDnsZoneDomain, dnsZone.Domain)
        d2 == Set(d1, keyDnsZoneCustomNameservers, <<NameserverBlock(dnsZone)>>)
        at == intStrMapGet(dnsZoneLoggingAnonymizationTypesInt, dnsZone.LogAnonymizationType)
    IN  [doc |-> Set(d2, keyDnsZoneLogging, <<LoggingBlock(dnsZone, at.val)>>),
         ok |-> TRUE]

\* dnsZoneToResource(dnsZone, d): [doc, ok], doc being d as far as it was written
dnsZoneToResource(dnsZone, doc) ==
    LET d0 == IF ~IsNil(dnsZone.ID) THEN SetId(doc, FormatInt(Deref(dnsZone.ID))) ELSE doc
        d1 == Set(d0, keyDnsZoneDomain, dnsZone.Domain)
        d2 == Set(d1, keyDnsZoneCustomNameservers, <<NameserverBlock(dnsZone)>>)
        at == intStrMapGet(dnsZoneLoggingAnonymizationTypesInt, dnsZone.LogAnonymizationType)
    IN  IF ~at.ok
        THEN [doc |-> d2, ok |-> FALSE]
        ELSE [doc |-> Set(d2, keyDnsZoneLogging, <<LoggingBlock(dnsZone, at.val)>>),
              ok |-> TRUE]

-----------------------------------------------------------------------------
(* The remote API (bunny.Client.DNSZone) *)

\* the zone the Add call sends: the domain, every other field zero
NewZone(domain) ==
    [ID |-> NilPtr, Domain |-> domain, CustomNameserversEnabled |-> FALSE,
     Nameserver1 |-> NilPtr, Nameserver2 |-> NilPtr, SoaEmail |-> NilPtr,
     LoggingEnabled |-> FALSE, LoggingIPAnonymizationEnabled |-> FALSE,
     LogAnonymizationType |-> 0]

\* the zone the remote stores for an update: a field the payload leaves unset
\* keeps its stored value; the code is written when anonymization is turned on
ApplyUpdate(zone, p) ==
    [zone EXCEPT
        !.CustomNameserversEnabled = p.CustomNameserversEnabled,
        !.Nameserver1 = IF IsNil(p.Nameserver1) THEN @ ELSE p.Nameserver1,
        !.Nameserver2 = IF IsNil(p.Nameserver2) THEN @ ELSE p.Nameserver2,
        !.SoaEmail = IF IsNil(p.SoaEmail) THEN @ ELSE p.SoaEmail,
        !.LoggingEnabled = p.LoggingEnabled,
        !.LoggingIPAnonymizationEnabled = p.LoggingIPAnonymizationEnabled,
        !.LogAnonymizationType =
            IF p.LoggingIPAnonymizationEnabled THEN p.LogAnonymizationType ELSE @]

\* a remote call in the log of the operation
Call(name, id) == [call |-> name, id |-> id]

\* the error of a client call on zone id that fails: the context's error when
\* the context is cancelled, else the remote's refusal
ClientError(id) ==
    IF ctx # <<>> THEN "cancelled"
    ELSE IF id \in DOMAIN remote THEN "apierror" ELSE "notfound"

\* the zone that exists before the provider creates any
PreID == 7
PreZone ==
    [ID |-> Ptr(PreID), Domain |-> "example.net", CustomNameserversEnabled |-> TRUE,
     Nameserver1 |-> Ptr("ns1.example.net"), Nameserver2 |-> Ptr("ns2.example.net"),
     SoaEmail |-> Ptr("hostmaster@example.net"), LoggingEnabled |-> TRUE,
     LoggingIPAnonymizationEnabled |-> TRUE, LogAnonymizationType |-> 1]

-----------------------------------------------------------------------------
(* The host: configurations, schema validation, the planned document *)

\* a field the configuration does not give
NotGiven == "<not given>"

Domains == {"example.com"}

CnConfigs ==
    {<<>>,
     <<[soa_email |-> "hostmaster@example.com", nameserver_1 |-> "ns1.example.com",
        nameserver_2 |-> "ns2.example.com"]>>,
     <<[soa_email |-> NotGiven, nameserver_1 |-> "ns1.example.com",
        nameserver_2 |-> "ns2.example.com"]>>}

LgConfigs ==
    {<<>>} \cup
    {<<[ip_anonymization |-> n]>> : n \in {"drop_ip", "octet", NotGiven}}

NoConfig == [domain |-> "", cn |-> <<>>, lg |-> <<>>, id |-> <<>>]

\* a schema without Required fields and without the StringInSlice validation
ValidConfig_acceptsAll(c) == TRUE

\* the schema: soa_email, nameserver_1 and nameserver_2 are Required in their
\* block; ip_anonymization is Optional and validated by StringInSlice(keys)
ValidConfig(c) ==
    /\ \A i \in 1..Len(c.cn) :
          /\ c.cn[i].soa_email # NotGiven
          /\ c.cn[i].nameserver_1 # NotGiven
          /\ c.cn[i].nameserver_2 # NotGiven
    /\ \A i \in 1..Len(c.lg) :
          \/ c.lg[i].ip_anonymization = NotGiven
          \/ c.lg[i].ip_anonymization \in dnsZoneLoggingAnonymizationTypeKeys

\* the blocks of the planned document: Computed fields and fields not given
\* read as their zero values
PlannedCn(cn) ==
    [i \in 1..Len(cn) |->
        [enabled |-> FALSE, nameserver_1 |-> cn[i].nameserver_1,
         nameserver_2 |-> cn[i].nameserver_2, soa_email |-> cn[i].soa_email]]

PlannedLg(lg) ==
    [i \in 1..Len(lg) |->
        [enabled |-> FALSE, ip_anonymization_enabled |-> FALSE,
         ip_anonymization |->
            IF lg[i].ip_anonymization = NotGiven THEN "" ELSE lg[i].ip_anonymization]]

\* the identifiers an import can be given
ImportIDs ==
    {FormatInt(PreID), <<"0">> \o FormatInt(PreID), FormatInt(FirstID),
     FormatInt(PreID + 1), <<"x">>}

\* no handler is running and the budget of operations is not used up
Idle == pc \in {"idle", "done"} /\ nops < MaxOps

\* no operation returned just before this one
NoPrev == [op |-> "none", rerr |-> "none", resp |-> NilPtr]

\* the host invokes handler o on document doc
Begin(o, c, doc, first) ==
    /\ op' = o
    /\ config' = c
    /\ d' = doc
    /\ snapshot' = doc
    /\ usnap' = doc
    /\ pc' = first
    /\ calls' = <<>>
    /\ rerr' = "none"
    /\ payload' = ZeroUpdateOptions
    /\ idv' = 0
    /\ addResp' = NilPtr
    /\ resp' = NilPtr
    /\ udiags' = <<>>
    /\ prev' = IF pc = "done" THEN [op |-> op, rerr |-> rerr, resp |-> resp] ELSE NoPrev
    /\ nops' = nops + 1
    /\ ctx' = <<>>
    /\ UNCHANGED <<triggerType, lookup>>

\* the host rejects a configuration the schema does not accept; no handler runs
HostReject(o, c) ==
    /\ Begin(o, c, d, "done")
    /\ diags' = FromErr("invalid configuration")
    /\ UNCHANGED <<remote, nextID, clock, createdID>>

\* resource "bunny_dnszone": the host plans a new record and calls Create
HostCreate ==
    /\ Idle
    /\ d.id = <<>>
    /\ \E dom \in Domains, cn \in CnConfigs, lg \in LgConfigs :
          LET c == [domain |-> dom, cn |-> cn, lg |-> lg, id |-> <<>>]
          IN  IF ValidConfig(c)
              THEN /\ Begin("Create", c,
                            [BlankDoc EXCEPT !.domain = dom,
                                             !.custom_nameservers = PlannedCn(cn),
                                             !.logging = PlannedLg(lg)],
                            "c_add")
                   /\ diags' = <<>>
                   /\ createdID' = NoID
                   /\ UNCHANGED <<remote, nextID, clock>>
              ELSE HostReject("Create", c)

\* the host plans a change of an existing record and calls Update; a block the
\* configuration omits is planned as absent or as the cached block
HostUpdate ==
    /\ Idle
    /\ d.id # <<>>
    /\ \E cn \in CnConfigs, lg \in LgConfigs, keepCn \in BOOLEAN, keepLg \in BOOLEAN :
          LET c == [domain |-> d.domain, cn |-> cn, lg |-> lg, id |-> <<>>]
          IN  IF ValidConfig(c)
              THEN /\ Begin("Update", c,
                            [d EXCEPT
                               !.custom_nameservers =
                                   IF cn = <<>> /\ keepCn THEN @ ELSE PlannedCn(cn),
                               !.logging =
                                   IF lg = <<>> /\ keepLg THEN @ ELSE PlannedLg(lg)],
                            "u_begin")
                   /\ diags' = <<>>
                   /\ UNCHANGED <<remote, nextID, clock, createdID>>
              ELSE HostReject("Update", c)

\* the host refreshes an existing record
HostRead ==
    /\ Idle
    /\ d.id # <<>>
    /\ Begin("Read", NoConfig, d, "r_begin")
    /\ diags' = <<>>
    /\ UNCHANGED <<remote, nextID, clock, createdID>>

\* the host destroys an existing record
HostDelete ==
    /\ Idle
    /\ d.id # <<>>
    /\ Begin("Delete", NoConfig, d, "x_begin")
    /\ diags' = <<>>
    /\ UNCHANGED <<remote, nextID, clock, createdID>>

-----------------------------------------------------------------------------
(* resourceDnsZoneCreate *)

\* CreateAdd that tries DNSZone.Add again after an error instead of returning
CreateAdd_retries ==
    /\ pc = "c_add"
    /\ calls' = Append(calls, Call("Add", 0))
    /\ \/ /\ rerr' = IF ctx # <<>> THEN "cancelled" ELSE "apierror"
          /\ diags' = FromErr("creating DNS zone failed")
          /\ pc' = IF Len(calls) = 0 THEN "c_add" ELSE "done"
          /\ UNCHANGED <<d, remote, nextID, addResp, usnap, createdID>>
       \/ /\ ctx = <<>>
          /\ nextID <= LastID
          /\ LET zone == [NewZone(Get(d, keyDnsZoneDomain)) EXCEPT !.ID = Ptr(nextID)]
                 doc == Set(SetId(d, FormatInt(Deref(zone.ID))),
                            keyLastUpdated, FormatRFC850(clock))
             IN  /\ remote' = (nextID :> zone) @@ remote
                 /\ addResp' = Ptr(zone)
                 /\ d' = doc
                 /\ usnap' = doc
          /\ nextID' = nextID + 1
          /\ createdID' = Ptr(nextID)
          /\ rerr' = "none"
          /\ pc' = "u_begin"
          /\ UNCHANGED diags
    /\ UNCHANGED <<config, clock, op, payload, idv, resp, udiags, snapshot, prev, nops,
                   ctx, triggerType, lookup>>

\* DNSZone.Add, then SetId and the first last_updated stamp
CreateAdd ==
    /\ pc = "c_add"
    /\ calls' = Append(calls, Call("Add", 0))
    /\ \/ /\ rerr' = IF ctx # <<>> THEN "cancelled" ELSE "apierror"
          /\ diags' = FromErr("creating DNS zone failed")
          /\ pc' = "done"
          /\ UNCHANGED <<d, remote, nextID, addResp, usnap, createdID>>
       \/ /\ ctx = <<>>
          /\ nextID <= LastID
          /\ LET zone == [NewZone(Get(d, keyDnsZoneDomain)) EXCEPT !.ID = Ptr(nextID)]
                 doc == Set(SetId(d, FormatInt(Deref(zone.ID))),
                            keyLastUpdated, FormatRFC850(clock))
             IN  /\ remote' = (nextID :> zone) @@ remote
                 /\ addResp' = Ptr(zone)
                 /\ d' = doc
                 /\ usnap' = doc
          /\ nextID' = nextID + 1
          /\ createdID' = Ptr(nextID)
          /\ rerr' = "none"
          /\ pc' = "u_begin"
          /\ UNCHANGED diags
    /\ UNCHANGED <<config, clock, op, payload, idv, resp, udiags, snapshot, prev, nops,
                   ctx, triggerType, lookup>>

\* CreateReturn without the dnsZoneToResource call of the failure path
CreateReturn_noFallback ==
    /\ pc = "c_ret"
    /\ diags' = IF HasError(udiags)
                THEN Append(udiags, Diag("Error", "setting DNS zone attributes via update failed"))
                ELSE <<>>
    /\ d' = d
    /\ pc' = "done"
    /\ UNCHANGED <<config, remote, nextID, clock, op, calls, rerr, payload, idv,
                   addResp, resp, udiags, snapshot, usnap, prev, createdID, nops,
                   ctx, triggerType, lookup>>

\* after resourceDnsZoneUpdate returned to resourceDnsZoneCreate
CreateReturn ==
    /\ pc = "c_ret"
    /\ IF HasError(udiags)
       THEN LET ds == Append(udiags, Diag("Error", "setting DNS zone attributes via update failed"))
                r == dnsZoneToResource(Deref(addResp), d)
            IN  /\ d' = r.doc
                /\ diags' = IF r.ok THEN ds
                            ELSE Append(ds, Diag("Error", "converting api-type to resource data failed"))
       ELSE /\ diags' = <<>>
            /\ d' = d
    /\ pc' = "done"
    /\ UNCHANGED <<config, remote, nextID, clock, op, calls, rerr, payload, idv,
                   addResp, resp, udiags, snapshot, usnap, prev, createdID, nops,
                   ctx, triggerType, lookup>>

-----------------------------------------------------------------------------
(* resourceDnsZoneUpdate *)

\* resourceDnsZoneUpdate returns ds, to resourceDnsZoneCreate or to the host
UpdateReturns(ds) ==
    /\ udiags' = ds
    /\ IF op = "Create"
       THEN pc' = "c_ret" /\ diags' = diags
       ELSE pc' = "done" /\ diags' = ds

\* dnsZoneUpdateFromResource and getIDAsInt64
UpdateBegin ==
    /\ pc = "u_begin"
    /\ LET t == dnsZoneUpdateFromResource(d)
           id == getIDAsInt64(d)
       IN  IF t.panic
           THEN /\ pc' = "panic"
                /\ UNCHANGED <<payload, idv, udiags, diags>>
           ELSE IF ~t.ok
           THEN /\ UpdateReturns(diagsErrFromErr("converting resource to API type failed"))
                /\ UNCHANGED <<payload, idv>>
           ELSE IF ~id.ok
           THEN /\ UpdateReturns(FromErr("invalid id"))
                /\ payload' = t.res
                /\ UNCHANGED idv
           ELSE /\ payload' = t.res
                /\ idv' = id.val
                /\ pc' = "u_call"
                /\ UNCHANGED <<udiags, diags>>
    /\ UNCHANGED <<d, config, remote, nextID, clock, op, calls, rerr, addResp, resp,
                   snapshot, usnap, prev, createdID, nops,
                   ctx, triggerType, lookup>>

\* DNSZone.Update
UpdateCall ==
    /\ pc = "u_call"
    /\ calls' = Append(calls, Call("Update", idv))
    /\ \/ /\ rerr' = ClientError(idv)
          /\ UpdateReturns(diagsErrFromErr("updating dns zone via API failed"))
          /\ UNCHANGED <<remote, resp>>
       \/ /\ ctx = <<>>
          /\ idv \in DOMAIN remote
          /\ LET zone == ApplyUpdate(remote[idv], payload)
             IN  /\ remote' = [remote EXCEPT ![idv] = zone]
                 /\ \E withID \in BOOLEAN :
                       resp' = Ptr(IF withID THEN zone ELSE [zone EXCEPT !.ID = NilPtr])
          /\ rerr' = "none"
          /\ pc' = "u_finish"
          /\ UNCHANGED <<udiags, diags>>
    /\ UNCHANGED <<d, config, nextID, clock, op, payload, idv, addResp, snapshot,
                   usnap, prev, createdID, nops,
                   ctx, triggerType, lookup>>

\* dnsZoneToResource on the response, then the last_updated stamp
UpdateFinish ==
    /\ pc = "u_finish"
    /\ LET r == dnsZoneToResource(Deref(resp), d)
       IN  IF ~r.ok
           THEN /\ d' = r.doc
                /\ UpdateReturns(diagsErrFromErr(
                      "converting api type to resource data after successful update failed"))
           ELSE /\ d' = Set(r.doc, keyLastUpdated, FormatRFC850(clock))
                /\ UpdateReturns(<<>>)
    /\ UNCHANGED <<config, remote, nextID, clock, op, calls, rerr, payload, idv,
                   addResp, resp, snapshot, usnap, prev, createdID, nops,
                   ctx, triggerType, lookup>>

-----------------------------------------------------------------------------
(* resourceDnsZoneRead *)

\* getIDAsInt64
ReadBegin ==
    /\ pc = "r_begin"
    /\ LET id == getIDAsInt64(d)
       IN  IF ~id.ok
           THEN /\ diags' = FromErr("invalid id")
                /\ pc' = "done"
                /\ UNCHANGED idv
           ELSE /\ idv' = id.val
                /\ pc' = "r_call"
                /\ UNCHANGED diags
    /\ UNCHANGED <<d, config, remote, nextID, clock, op, calls, rerr, payload, addResp,
                   resp, udiags, snapshot, usnap, prev, createdID, nops,
                   ctx, triggerType, lookup>>

\* DNSZone.Get
ReadCall ==
    /\ pc = "r_call"
    /\ calls' = Append(calls, Call("Get", idv))
    /\ \/ /\ rerr' = ClientError(idv)
          /\ diags' = diagsErrFromErr("could not retrieve DNS zone")
          /\ pc' = "done"
          /\ UNCHANGED resp
       \/ /\ ctx = <<>>
          /\ idv \in DOMAIN remote
          /\ \E withID \in BOOLEAN :
                resp' = Ptr(IF withID THEN remote[idv]
                            ELSE [remote[idv] EXCEPT !.ID = NilPtr])
          /\ rerr' = "none"
          /\ pc' = "r_finish"
          /\ UNCHANGED diags
    /\ UNCHANGED <<d, config, remote, nextID, clock, op, payload, idv, addResp, udiags,
                   snapshot, usnap, prev, createdID, nops,
                   ctx, triggerType, lookup>>

\* ReadFinish that also stamps last_updated, as Update does
ReadFinish_stamps ==
    /\ pc = "r_finish"
    /\ LET r == dnsZoneToResource(Deref(resp), d)
       IN  /\ d' = IF r.ok THEN Set(r.doc, keyLastUpdated, FormatRFC850(clock)) ELSE r.doc
           /\ diags' = IF r.ok THEN <<>>
                       ELSE diagsErrFromErr(
                          "converting api type to resource data after successful read failed")
    /\ pc' = "done"
    /\ UNCHANGED <<config, remote, nextID, clock, op, calls, rerr, payload, idv,
                   addResp, resp, udiags, snapshot, usnap, prev, createdID, nops,
                   ctx, triggerType, lookup>>

\* dnsZoneToResource on the response
ReadFinish ==
    /\ pc = "r_finish"
    /\ LET r == dnsZoneToResource(Deref(resp), d)
       IN  /\ d' = r.doc
           /\ diags' = IF r.ok THEN <<>>
                       ELSE diagsErrFromErr(
                          "converting api type to resource data after successful read failed")
    /\ pc' = "done"
    /\ UNCHANGED <<config, remote, nextID, clock, op, calls, rerr, payload, idv,
                   addResp, resp, udiags, snapshot, usnap, prev, createdID, nops,
                   ctx, triggerType, lookup>>

-----------------------------------------------------------------------------
(* resourceDnsZoneDelete *)

\* getIDAsInt64
DeleteBegin ==
    /\ pc = "x_begin"
    /\ LET id == getIDAsInt64(d)
       IN  IF ~id.ok
           THEN /\ diags' = FromErr("invalid id")
                /\ pc' = "done"
                /\ UNCHANGED idv
           ELSE /\ idv' = id.val
                /\ pc' = "x_call"
                /\ UNCHANGED diags
    /\ UNCHANGED <<d, config, remote, nextID, clock, op, calls, rerr, payload, addResp,
                   resp, udiags, snapshot, usnap, prev, createdID, nops,
                   ctx, triggerType, lookup>>

\* DeleteCall that clears the identifier whether DNSZone.Delete succeeded or not
DeleteCall_clearsAlways ==
    /\ pc = "x_call"
    /\ calls' = Append(calls, Call("Delete", idv))
    /\ \/ /\ rerr' = ClientError(idv)
          /\ diags' = diagsErrFromErr("could not delete DNS zone")
          /\ d' = SetId(d, <<>>)
          /\ UNCHANGED <<remote, createdID>>
       \/ /\ ctx = <<>>
          /\ idv \in DOMAIN remote
          /\ remote' = [z \in DOMAIN remote \ {idv} |-> remote[z]]
          /\ rerr' = "none"
          /\ d' = SetId(d, <<>>)
          /\ createdID' = NoID
          /\ UNCHANGED diags
    /\ pc' = "done"
    /\ UNCHANGED <<config, nextID, clock, op, payload, idv, addResp, resp, udiags,
                   snapshot, usnap, prev, nops,
                   ctx, triggerType, lookup>>

\* DNSZone.Delete, then SetId("")
DeleteCall ==
    /\ pc = "x_call"
    /\ calls' = Append(calls, Call("Delete", idv))
    /\ \/ /\ rerr' = ClientError(idv)
          /\ diags' = diagsErrFromErr("could not delete DNS zone")
          /\ UNCHANGED <<d, remote, createdID>>
       \/ /\ ctx = <<>>
          /\ idv \in DOMAIN remote
          /\ remote' = [z \in DOMAIN remote \ {idv} |-> remote[z]]
          /\ rerr' = "none"
          /\ d' = SetId(d, <<>>)
          /\ createdID' = NoID
          /\ UNCHANGED diags
    /\ pc' = "done"
    /\ UNCHANGED <<config, nextID, clock, op, payload, idv, addResp, resp, udiags,
                   snapshot, usnap, prev, nops,
                   ctx, triggerType, lookup>>

-----------------------------------------------------------------------------
(* Import: schema.ImportStatePassthroughContext *)

\* an importer that parses the identifier supplied and records its decimal form
Import_decimalId ==
    /\ Idle
    /\ d.id = <<>>
    /\ \E ext \in ImportIDs :
          LET id == ParseInt(ext)
          IN  Begin("Import", [NoConfig EXCEPT !.id = ext],
                    SetId(BlankDoc, IF id.ok THEN FormatInt(id.val) ELSE ext), "done")
    /\ diags' = <<>>
    /\ createdID' = NoID
    /\ UNCHANGED <<remote, nextID, clock>>

\* the host makes a record whose identifier is the one supplied; no handler code runs
Import ==
    /\ Idle
    /\ d.id = <<>>
    /\ \E ext \in ImportIDs :
          Begin("Import", [NoConfig EXCEPT !.id = ext], SetId(BlankDoc, ext), "done")
    /\ diags' = <<>>
    /\ createdID' = NoID
    /\ UNCHANGED <<remote, nextID, clock>>

-----------------------------------------------------------------------------
(* The environment *)

\* somebody else changes or removes a zone between two operations
RemoteChange ==
    /\ Idle
    /\ \E z \in DOMAIN remote :
          \/ remote' = [y \in DOMAIN remote \ {z} |-> remote[y]]
          \/ \E c \in 0..MaxCode :
                /\ c # remote[z].LogAnonymizationType
                /\ remote' = [remote EXCEPT ![z].LogAnonymizationType = c]
    /\ op' = "none"
    /\ pc' = "idle"
    /\ nops' = nops + 1
    /\ UNCHANGED <<d, config, nextID, clock, calls, rerr, payload, idv, addResp, resp,
                   udiags, diags, snapshot, usnap, prev, createdID,
                   ctx, triggerType, lookup>>

\* the caller cancels the context of the running operation
Cancel ==
    /\ pc \notin {"idle", "done", "panic"}
    /\ ctx = <<>>
    /\ ctx' = <<Len(calls)>>
    /\ UNCHANGED <<d, config, remote, nextID, clock, op, pc, calls, rerr, payload, idv,
                   addResp, resp, udiags, diags, snapshot, usnap, prev, createdID, nops,
                   triggerType, lookup>>

\* time passes
Tick ==
    /\ clock < LastTick
    /\ clock' = clock + 1
    /\ UNCHANGED <<d, config, remote, nextID, op, pc, calls, rerr, payload, idv,
                   addResp, resp, udiags, diags, snapshot, usnap, prev, createdID, nops,
                   ctx, triggerType, lookup>>

-----------------------------------------------------------------------------
(* The enum tables on their own: inputs drawn from bounded sets, lookups applied *)

\* the names looked up: the two of the table and strings that are not in it
EnumNames == {"remove_octet", "drop_ip", "octet", "DROP_IP", ""}

\* the codes looked up: the two of the table and their neighbours
EnumCodes == (0 - 1)..MaxCode

\* no lookup has been applied
NoLookup == [name |-> "", code |-> 0, byName |-> <<>>, byCode |-> <<>>,
             nameBack |-> <<>>, codeBack |-> <<>>]

\* the variables of the handlers, which the lookups leave alone
handlerVars == <<d, config, remote, nextID, clock, op, pc, calls, rerr, payload, idv,
                 addResp, resp, udiags, diags, snapshot, usnap, prev, createdID, nops,
                 ctx>>

\* dnsZoneLoggingAnonymizationTypeToInt on the name drawn
LookupByName ==
    /\ lookup.byName = <<>>
    /\ lookup' = [lookup EXCEPT
                     !.byName = <<dnsZoneLoggingAnonymizationTypeToInt(lookup.name)>>]
    /\ UNCHANGED <<handlerVars, triggerType>>

\* intStrMapGet on the code drawn
LookupByCode ==
    /\ lookup.byCode = <<>>
    /\ lookup' = [lookup EXCEPT
                     !.byCode = <<intStrMapGet(dnsZoneLoggingAnonymizationTypesInt,
                                               lookup.code)>>]
    /\ UNCHANGED <<handlerVars, triggerType>>

\* intStrMapGet on the code that the lookup by name returned
LookupNameBack ==
    /\ lookup.byName # <<>>
    /\ lookup.byName[1].ok
    /\ lookup.nameBack = <<>>
    /\ lookup' = [lookup EXCEPT
                     !.nameBack = <<intStrMapGet(dnsZoneLoggingAnonymizationTypesInt,
                                                 lookup.byName[1].val)>>]
    /\ UNCHANGED <<handlerVars, triggerType>>

\* dnsZoneLoggingAnonymizationTypeToInt on the name that the lookup by code returned
LookupCodeBack ==
    /\ lookup.byCode # <<>>
    /\ lookup.byCode[1].ok
    /\ lookup.codeBack = <<>>
    /\ lookup' = [lookup EXCEPT
                     !.codeBack = <<dnsZoneLoggingAnonymizationTypeToInt(
                                       lookup.byCode[1].val)>>]
    /\ UNCHANGED <<handlerVars, triggerType>>

-----------------------------------------------------------------------------
(* The specification *)

Init ==
    /\ d = BlankDoc
    /\ config = NoConfig
    /\ remote = (PreID :> PreZone)
    /\ nextID = FirstID
    /\ clock = StartTick
    /\ op = "none"
    /\ pc = "idle"
    /\ calls = <<>>
    /\ rerr = "none"
    /\ payload = ZeroUpdateOptions
    /\ idv = 0
    /\ addResp = NilPtr
    /\ resp = NilPtr
    /\ udiags = <<>>
    /\ diags = <<>>
    /\ snapshot = BlankDoc
    /\ usnap = BlankDoc
    /\ prev = NoPrev
    /\ ctx = <<>>
    /\ triggerType = ""
    /\ lookup = NoLookup
    /\ createdID = NoID
    /\ nops = 0

Next ==
    \/ HostCreate
    \/ CreateAdd
    \/ CreateReturn
    \/ HostUpdate
    \/ UpdateBegin
    \/ UpdateCall
    \/ UpdateFinish
    \/ HostRead
    \/ ReadBegin
    \/ ReadCall
    \/ ReadFinish
    \/ HostDelete
    \/ DeleteBegin
    \/ DeleteCall
    \/ Import
    \/ RemoteChange
    \/ Cancel
    \/ Tick

Spec == Init /\ [][Next]_vars

\* the handlers at rest, a name, a code and a value of triggerType drawn
InitEnum ==
    /\ d = BlankDoc
    /\ config = NoConfig
    /\ remote = (PreID :> PreZone)
    /\ nextID = FirstID
    /\ clock = StartTick
    /\ op = "none"
    /\ pc = "idle"
    /\ calls = <<>>
    /\ rerr = "none"
    /\ payload = ZeroUpdateOptions
    /\ idv = 0
    /\ addResp = NilPtr
    /\ resp = NilPtr
    /\ udiags = <<>>
    /\ diags = <<>>
    /\ snapshot = BlankDoc
    /\ usnap = BlankDoc
    /\ prev = NoPrev
    /\ createdID = NoID
    /\ nops = 0
    /\ ctx = <<>>
    /\ triggerType \in EnumNames
    /\ \E n \in EnumNames, c \in EnumCodes :
          lookup = [NoLookup EXCEPT !.name = n, !.code = c]

NextEnum ==
    \/ LookupByName
    \/ LookupByCode
    \/ LookupNameBack
    \/ LookupCodeBack

SpecEnum == InitEnum /\ [][NextEnum]_vars

-----------------------------------------------------------------------------
(* Properties *)

\* C1: Create followed by Read, with no remote change in between, leaves the
\* document as Create left it: identifier, domain, both blocks and last_updated.
C1_CreateThenReadKeepsDocument ==
    (pc = "done" /\ op = "Read" /\ prev.op = "Create") => d = snapshot

\* a Read that fetched the zone and wrote it to the document, right after a Create
C1_Witness ==
    /\ pc = "done" /\ op = "Read" /\ prev.op = "Create"
    /\ diags = <<>>
    /\ ~IsNil(resp)
    /\ d.last_updated # NoTime
    /\ clock > StartTick

\* C2: once DNSZone.Add has succeeded, the identifier of the document is the
\* decimal string of the identifier Add returned, in every later state of the Create.
C2_IdentifierRecorded ==
    (op = "Create" /\ ~IsNil(addResp)) =>
        LET id == Deref(Deref(addResp).ID)
        IN  /\ ParseInt(d.id) = [val |-> id, ok |-> TRUE]
            /\ Head(d.id) \notin {"0", "+", "-"}

\* a Create whose follow-up Update failed, for a zone with a two-digit identifier
C2_Witness ==
    /\ op = "Create" /\ pc = "done" /\ ~IsNil(addResp)
    /\ HasError(diags)
    /\ Deref(Deref(addResp).ID) >= 10

\* Create has returned after DNSZone.Add succeeded and resourceDnsZoneUpdate failed
CreatePartlyFailed ==
    op = "Create" /\ pc = "done" /\ ~IsNil(addResp) /\ HasError(udiags)

\* the document holds the identifier and what the zone returned by Add holds
PopulatedFromAddResponse ==
    LET zone == Deref(addResp)
    IN  /\ ParseInt(d.id) = [val |-> Deref(zone.ID), ok |-> TRUE]
        /\ d.domain = zone.Domain
        /\ d.custom_nameservers =
              <<[enabled |-> FALSE, nameserver_1 |-> "", nameserver_2 |-> "",
                 soa_email |-> ""]>>
        /\ d.logging =
              <<[enabled |-> FALSE, ip_anonymization_enabled |-> FALSE,
                 ip_anonymization |-> "remove_octet"]>>

\* C3 as stated: when Add succeeded and the follow-up Update failed, Create
\* reports a warning and no error, and the document is populated from the Add response.
C3_AsStated ==
    CreatePartlyFailed =>
        /\ ~HasError(diags)
        /\ \E i \in 1..Len(diags) : diags[i].severity = "Warning"
        /\ PopulatedFromAddResponse

\* C3 amended: when Add succeeded and the follow-up Update failed, Create returns
\* the Update's diagnostics followed by the error "setting DNS zone attributes via
\* update failed" (severity Error, no warning), and the document is populated
\* from the Add response alone.
C3_PartialFailureReported ==
    CreatePartlyFailed =>
        /\ diags = Append(udiags,
                          Diag("Error", "setting DNS zone attributes via update failed"))
        /\ \A i \in 1..Len(diags) : diags[i].severity = "Error"
        /\ PopulatedFromAddResponse

\* a Create whose Update call the remote refused, for a configuration with both blocks
C3_Witness ==
    /\ CreatePartlyFailed
    /\ rerr = "apierror"
    /\ config.cn # <<>>
    /\ config.lg # <<>>

\* C4: a Read whose identifier the remote reports as not found ends with the
\* "resource gone" signal: no error, and the identifier cleared so that the
\* host drops the record.
C4_ReadGoneSignal ==
    (op = "Read" /\ pc = "done" /\ rerr = "notfound") =>
        (~HasError(diags) /\ d.id = <<>>)

\* C5: a Delete whose identifier the remote reports as not found returns success.
C5_DeleteIdempotent ==
    (op = "Delete" /\ pc = "done" /\ rerr = "notfound") => ~HasError(diags)

\* resourceDnsZoneUpdate has just returned an error, to the host or to Create
UpdateReturnedError ==
    \/ op = "Update" /\ pc = "done" /\ HasError(udiags)
    \/ op = "Create" /\ pc = "c_ret" /\ HasError(udiags)

\* C6: whenever Update returns an error, every field of the document is what it
\* was when Update was invoked.
C6_FailedUpdateKeepsDocument ==
    UpdateReturnedError => d = usnap

\* C7: while the local record that Create made exists, its identifier is the
\* decimal string of the identifier of the zone Create produced; no Read,
\* Update, failed Delete or remote change makes it anything else.
C7_IdentifierStable ==
    ~IsNil(createdID) =>
        /\ ParseInt(d.id) = [val |-> Deref(createdID), ok |-> TRUE]
        /\ Head(d.id) \notin {"0", "+", "-"}

\* a Read or an Update of the created record got a response without identifier
\* and wrote it to the document
C7_Witness ==
    /\ ~IsNil(createdID)
    /\ op \in {"Read", "Update"} /\ pc = "done"
    /\ ~IsNil(resp) /\ IsNil(Deref(resp).ID)
    /\ d # snapshot

\* the payload of the running Update has been built from the document usnap
PayloadBuilt == pc \in {"u_call", "u_finish"}

\* C8: the payload disables custom nameservers and leaves ns1, ns2 and soa-email
\* unset when the document has no custom_nameservers block; with the block it
\* has enabled = true and ns1, ns2 and soa-email equal to the block's values.
C8_NameserverPayload ==
    PayloadBuilt =>
        IF usnap.custom_nameservers = <<>>
        THEN /\ ~payload.CustomNameserversEnabled
             /\ IsNil(payload.Nameserver1)
             /\ IsNil(payload.Nameserver2)
             /\ IsNil(payload.SoaEmail)
        ELSE /\ payload.CustomNameserversEnabled
             /\ payload.Nameserver1 = Ptr(usnap.custom_nameservers[1].nameserver_1)
             /\ payload.Nameserver2 = Ptr(usnap.custom_nameservers[1].nameserver_2)
             /\ payload.SoaEmail = Ptr(usnap.custom_nameservers[1].soa_email)

\* C9: with a logging block whose anonymization string is no supported name the
\* Update goes on to the remote call with logging enabled and IP anonymization
\* disabled in the payload; with a supported name IP anonymization is enabled
\* with the code of the name; without logging block both are disabled.
C9_LoggingPayload ==
    PayloadBuilt =>
        IF usnap.logging = <<>>
        THEN ~payload.LoggingEnabled /\ ~payload.LoggingIPAnonymizationEnabled
        ELSE LET name == usnap.logging[1].ip_anonymization
             IN  /\ payload.LoggingEnabled
                 /\ IF name \in dnsZoneLoggingAnonymizationTypeKeys
                    THEN /\ payload.LoggingIPAnonymizationEnabled
                         /\ <<name, payload.LogAnonymizationType>>
                               \in dnsZoneLoggingAnonymizationTypesStr
                    ELSE ~payload.LoggingIPAnonymizationEnabled

\* the diagnostics report an error of the input: a configuration the schema
\* rejects, an identifier that is no integer, a document that does not translate
InputError(ds) ==
    /\ Len(ds) > 0
    /\ ds[1].summary \in {"invalid configuration", "invalid id",
                          "converting resource to API type failed"}

\* C10: an operation given a malformed configuration or an unrecognized enum
\* value reports the error and ends without having made a remote call; no
\* remote call of an operation precedes an input error of that operation.
C10_InputErrorBeforeRemoteCall ==
    /\ (op \in {"Create", "Update"}
        /\ (\E i \in 1..Len(config.lg) :
               config.lg[i].ip_anonymization
                  \notin dnsZoneLoggingAnonymizationTypeKeys \cup {NotGiven}))
          => (pc = "done" /\ HasError(diags) /\ calls = <<>>)
    /\ (op \in {"Create", "Update"}
        /\ (\E i \in 1..Len(config.cn) : config.cn[i].soa_email = NotGiven))
          => (pc = "done" /\ HasError(diags) /\ calls = <<>>)
    /\ (InputError(diags) \/ InputError(udiags)) => calls = <<>>

\* the host turned down an Update whose logging block names an unknown
\* anonymization type, for a record whose zone exists
C10_Witness ==
    /\ op = "Update" /\ pc = "done"
    /\ config.lg # <<>> /\ config.lg[1].ip_anonymization = "octet"
    /\ InputError(diags)
    /\ ParseInt(d.id).ok /\ ParseInt(d.id).val \in DOMAIN remote

-----------------------------------------------------------------------------
(* The enum tables *)

\* the names of the anonymization table
SupportedNames == {"remove_octet", "drop_ip"}

\* the two directions of the table undo each other on the supported names and codes
EnumRoundTrip ==
    /\ lookup.byName # <<>> =>
          (lookup.byName[1].ok <=> lookup.name \in SupportedNames)
    /\ lookup.byCode # <<>> =>
          (lookup.byCode[1].ok <=> lookup.code \in {0, 1})
    /\ lookup.nameBack # <<>> =>
          (lookup.nameBack[1].ok /\ lookup.nameBack[1].val = lookup.name)
    /\ lookup.codeBack # <<>> =>
          (lookup.codeBack[1].ok /\ lookup.codeBack[1].val = lookup.code)
    /\ (lookup.name = "remove_octet" /\ lookup.byName # <<>>) => lookup.byName[1].val = 0
    /\ (lookup.name = "drop_ip" /\ lookup.byName # <<>>) => lookup.byName[1].val = 1

\* C11: the anonymization table is one-to-one over exactly two names: on
\* remove_octet (0) and drop_ip (1) name -> code -> name and code -> name -> code
\* return the original, and the lookup of any other string fails with an error
\* that names the string looked up
C11_EnumRoundTripNamesInput ==
    /\ EnumRoundTrip
    /\ (lookup.byName # <<>> /\ lookup.name \notin SupportedNames) =>
          /\ ~lookup.byName[1].ok
          /\ lookup.byName[1].err # <<>>
          /\ lookup.byName[1].err[1].arg = lookup.name

-----------------------------------------------------------------------------
(* Read *)

\* a step of resourceDnsZoneRead
ReadStep == op = "Read" /\ pc \in {"r_begin", "r_call", "r_finish"}

\* C12: Read makes no remote call other than Get and leaves the remote store as
\* it was, and a Read that returns right after another Read, with no remote change
\* in between and the remote giving both the same answer, leaves the document as
\* it found it
C12_ReadSideEffectFreeIdempotent ==
    [][ /\ ReadStep =>
              /\ remote' = remote
              /\ \A i \in DOMAIN calls' : calls'[i].call = "Get"
        /\ ( /\ ReadStep
             /\ pc' = "done"
             /\ prev.op = "Read" /\ prev.rerr = rerr'
             /\ prev.resp = resp' ) => d' = snapshot
      ]_vars

\* a second Read in a row has fetched the zone and returned
C12_Witness ==
    /\ op = "Read" /\ pc = "done"
    /\ prev.op = "Read" /\ prev.rerr = "none" /\ prev.resp = resp
    /\ calls = <<Call("Get", idv)>>
    /\ rerr = "none"
    /\ diags = <<>>
    /\ d.domain # ""

-----------------------------------------------------------------------------
(* Create with a domain only *)

\* Create was given a domain and no block, Add returned a zone and the remote
\* accepted the update that followed
DomainOnlyCreated ==
    /\ op = "Create" /\ pc = "done"
    /\ config.cn = <<>> /\ config.lg = <<>>
    /\ ~IsNil(addResp)
    /\ Len(calls) = 2 /\ calls[2].call = "Update"
    /\ rerr = "none"

\* C13: Create with a domain only, against a remote that assigns an identifier
\* and accepts the update, ends without error with the decimal identifier, the
\* given domain and both blocks disabled in the document, and with nameservers
\* and logging disabled in the remote zone
C13_DomainOnlyCreate ==
    DomainOnlyCreated =>
        LET id == Deref(Deref(addResp).ID)
        IN  /\ diags = <<>>
            /\ d.id = FormatInt(id)
            /\ d.domain = config.domain
            /\ Len(d.custom_nameservers) = 1
            /\ ~d.custom_nameservers[1].enabled
            /\ Len(d.logging) = 1
            /\ ~d.logging[1].enabled
            /\ id \in DOMAIN remote
            /\ ~remote[id].CustomNameserversEnabled
            /\ ~remote[id].LoggingEnabled

\* such a Create has returned
C13_Witness ==
    /\ DomainOnlyCreated
    /\ d.domain = "example.com"
    /\ d.id = FormatInt(FirstID)

-----------------------------------------------------------------------------
(* Import *)

\* C14: Import records the identifier it is given as it is, makes no remote call
\* and sets no other field; a Read that follows and succeeds fills the document
\* from the remote zone whose identifier is the one imported
C14_ImportPassthrough ==
    /\ (op = "Import" /\ pc = "done") =>
          /\ d = SetId(BlankDoc, config.id)
          /\ calls = <<>>
          /\ diags = <<>>
    /\ (op = "Read" /\ pc = "done" /\ prev.op = "Import" /\ diags = <<>>) =>
          LET id == ParseInt(snapshot.id)
          IN  /\ id.ok
              /\ calls = <<Call("Get", id.val)>>
              /\ id.val \in DOMAIN remote
              /\ d.domain = remote[id.val].Domain
              /\ d.custom_nameservers = <<NameserverBlock(remote[id.val])>>
              /\ Len(d.logging) = 1
              /\ d.logging[1].enabled = remote[id.val].LoggingEnabled
              /\ ParseInt(d.id) = id

\* an identifier written with a leading zero was imported and the Read that
\* followed has filled the document
C14_Witness ==
    /\ op = "Read" /\ pc = "done" /\ prev.op = "Import" /\ diags = <<>>
    /\ snapshot = SetId(BlankDoc, <<"0">> \o FormatInt(PreID))
    /\ d.domain = PreZone.Domain

-----------------------------------------------------------------------------
(* The remote calls of Create *)

\* DNSZone.Add was called and returned an error
AddFailed == op = "Create" /\ calls # <<>> /\ IsNil(addResp) /\ pc = "done"

\* C15: when DNSZone.Add errors, Create returns an error, leaves the identifier
\* unset and the document as it was and calls no update; a Create calls Add at
\* most once and Update at most once, Update only after Add succeeded and with
\* the identifier Add returned
C15_CreateCallsOnce ==
    /\ AddFailed =>
          /\ HasError(diags)
          /\ d.id = <<>>
          /\ d = snapshot
          /\ calls = <<Call("Add", 0)>>
    /\ op = "Create" =>
          /\ Len(calls) <= 2
          /\ Len(calls) >= 1 => calls[1].call = "Add"
          /\ Len(calls) = 2 =>
                /\ ~IsNil(addResp)
                /\ calls[2] = Call("Update", Deref(Deref(addResp).ID))

\* the remote refused the Add of a Create and the Create has returned
C15_Witness ==
    /\ AddFailed
    /\ rerr = "apierror"
    /\ snapshot.domain = "example.com"

-----------------------------------------------------------------------------
(* Delete *)

\* DNSZone.Delete was called and returned no error
RemoteDeleted == calls # <<>> /\ rerr = "none"

\* C16: Delete clears the identifier exactly when the remote delete succeeded;
\* when the identifier does not parse or the remote delete fails, Delete returns
\* an error and leaves the identifier and the rest of the document as they were
C16_DeleteClearsIdOnSuccess ==
    (op = "Delete" /\ pc = "done") =>
        IF RemoteDeleted
        THEN /\ d = SetId(snapshot, <<>>)
             /\ diags = <<>>
        ELSE /\ d = snapshot
             /\ d.id # <<>>
             /\ HasError(diags)

\* a Delete has removed the zone that was there from the start
C16_Witness ==
    /\ op = "Delete" /\ pc = "done"
    /\ RemoteDeleted
    /\ snapshot.id = FormatInt(PreID)
    /\ PreID \notin DOMAIN remote

-----------------------------------------------------------------------------
(* Cancellation *)

\* C17: once the context of an operation is cancelled the operation makes no
\* further remote call and returns an error; a Create cancelled after Add
\* returned does not call Update
C17_CancellationHonoured ==
    ctx # <<>> =>
        /\ Len(calls) = ctx[1]
        /\ pc = "done" => HasError(diags)

-----------------------------------------------------------------------------
(* Anonymization codes in a response *)

\* a Read or an Update has returned after the remote answered with a zone
AnsweredWithZone == op \in {"Read", "Update"} /\ pc = "done" /\ ~IsNil(resp)

\* C18: when the zone that Get or Update returned carries an anonymization code
\* other than 0 and 1, Read (or Update) returns an error and writes no logging
\* block; for the codes 0 and 1 the name written is remove_octet and drop_ip
C18_UnknownCodeIsError ==
    AnsweredWithZone =>
        LET code == Deref(resp).LogAnonymizationType
        IN  IF code \notin {0, 1}
            THEN /\ HasError(diags)
                 /\ d.logging = snapshot.logging
            ELSE /\ Len(d.logging) = 1
                 /\ d.logging[1].ip_anonymization =
                       (IF code = 0 THEN "remove_octet" ELSE "drop_ip")

\* a Read was answered with a zone whose code is not in the table
C18_Witness ==
    /\ AnsweredWithZone
    /\ op = "Read"
    /\ Deref(resp).LogAnonymizationType = MaxCode
    /\ HasError(diags)

-----------------------------------------------------------------------------
(* The blocks of the document after an operation *)

\* a Create, Read or Update has returned without error after the remote answered
SucceededWithZone ==
    /\ op \in {"Create", "Read", "Update"}
    /\ pc = "done"
    /\ diags = <<>>
    /\ ~IsNil(resp)

\* the document holds one block of each kind, with the enabled flags of the zone
BlocksFromZone ==
    SucceededWithZone =>
        /\ Len(d.custom_nameservers) = 1
        /\ d.custom_nameservers[1].enabled = Deref(resp).CustomNameserversEnabled
        /\ Len(d.logging) = 1
        /\ d.logging[1].enabled = Deref(resp).LoggingEnabled

\* C19: after a successful Create, Read or Update the document holds exactly one
\* custom-nameserver block and one logging block, each with the remote zone's
\* enabled flag, and an Update whose input document holds both blocks finds both
\* present when it builds its payload
C19_BlocksPresentForUpdate ==
    /\ BlocksFromZone
    /\ (PayloadBuilt /\ Len(usnap.custom_nameservers) = 1 /\ Len(usnap.logging) = 1) =>
          /\ payload.CustomNameserversEnabled
          /\ payload.LoggingEnabled

-----------------------------------------------------------------------------
(* The last_updated stamp *)

\* the step of Create that follows a successful DNSZone.Add
CreateRecordsId == pc = "c_add" /\ pc' = "u_begin"

\* the step of resourceDnsZoneUpdate that ends it without error
UpdateSucceeds == pc = "u_finish" /\ pc' \in {"c_ret", "done"} /\ udiags' = <<>>

\* the host makes the document of a new record
NewRecord ==
    /\ pc \in {"idle", "done"}
    /\ nops' = nops + 1
    /\ (op' = "Create" /\ pc' = "c_add") \/ op' = "Import"

\* C20: last_updated is written by Create, right after the identifier is
\* recorded and before the update, and by an update that succeeds, and by
\* nothing else: Read, Delete and Import never change it, and after a Create
\* whose update failed it is set
C20_LastUpdatedWriters ==
    [][ /\ CreateRecordsId =>
              (d'.id # <<>> /\ d'.last_updated = FormatRFC850(clock))
        /\ UpdateSucceeds => d'.last_updated = FormatRFC850(clock)
        /\ NewRecord => d'.last_updated = NoTime
        /\ d'.last_updated # d.last_updated =>
              (CreateRecordsId \/ UpdateSucceeds \/ NewRecord)
        /\ op' \in {"Read", "Delete"} => d'.last_updated = d.last_updated
        /\ CreatePartlyFailed' => d'.last_updated # NoTime
      ]_vars

\* a Create whose update failed has returned with the stamp of its first step
C20_Witness ==
    /\ CreatePartlyFailed
    /\ d.last_updated = FormatRFC850(StartTick)
    /\ d.last_updated # NoTime

====
